---- MODULE Spec2Model ----
(***************************************************************************)
(* QuoteIQ webhook receiver: the dispatcher, the schedule handlers and the *)
(* Google Calendar reconciliation functions, as a state machine.           *)
(*                                                                         *)
(* The repository holds two versions of the server:                        *)
(*   src/index.js          keeps the doc_id -> event id table              *)
(*                         (eventMappings), calls the handlers without     *)
(*                         awaiting them and swallows calendar errors;     *)
(*   src/unnamed/part_000  keeps no table, finds the event by a search on  *)
(*                         the calendar, awaits the handlers and rethrows. *)
(* variant says which of the two is the running server.  Definitions that  *)
(* model part_000 carry the suffix Alt.                                    *)
(*                                                                         *)
(* A step of the model is one synchronous segment of JavaScript: the code  *)
(* between two awaits runs without interleaving (single-threaded event     *)
(* loop); the response of an external call arrives in a separate step.     *)
(***************************************************************************)
EXTENDS Integers, FiniteSets, Sequences, TLC

\* Number of webhook deliveries in one run of the model.
MaxReq == 2

Reqs == 1..MaxReq

DocIds == {"Q1", "Q2"}

ScheduleTypes == {"schedule.created", "schedule.updated", "schedule.deleted"}

EstimateTypes == {"estimate.created", "estimate.updated", "estimate.deleted"}

\* "absent": the body has no type field.
EventTypes == ScheduleTypes \cup EstimateTypes \cup {"unknown.event", "absent"}

\* The schedule types, written out for the formulas below.
UpsertTypes == {"schedule.created", "schedule.updated"}

\* A schedule timestamp of the payload: missing, a parseable date, or a
\* string Date cannot parse.
TimeVals == {"absent", "valid", "invalid"}

Envelopes ==
  [type : EventTypes, hasPayload : BOOLEAN, doc : DocIds,
   starts : TimeVals, ends : TimeVals]

NoId == 0

VARIABLES
  variant,        \* "index" (src/index.js) or "alt" (src/unnamed/part_000)
  credentials,    \* process.env.GOOGLE_SERVICE_ACCOUNT_JSON (index.js:298)
  eventMappings,  \* index.js:291, Map doc_id -> event id (NoId: no entry)
  remoteEvents,   \* the events that exist on the calendar service
  nextId,         \* the id the service gives the next event (response.data.id)
  lateInserts,    \* inserts that lost the race against the timer (index.js:351)
  reqs,           \* per delivery: position in the code, locals, call log
  silent,         \* deliveries whose outstanding call the service never answers
  payloadIn,      \* the payload a schedule handler is given (resource builder)
  calendarEvent   \* the calendar resource the handler built from payloadIn

vars ==
  <<variant, credentials, eventMappings, remoteEvents, nextId, lateInserts, reqs,
    silent, payloadIn, calendarEvent>>

\* Before any payload has been handed to a schedule handler.
NoPayload == [doc_id |-> "none"]
NoEvent == [path |-> "none"]

NoReq ==
  [type |-> "none", hasPayload |-> FALSE, times |-> "none",
   doc |-> "none", op |-> "none", pc |-> "idle",
   cfrom |-> "none", tgt |-> NoId, newId |-> NoId,
   nIns |-> 0, nUpd |-> 0, nDel |-> 0, nSrch |-> 0,
   ures |-> "none", dres |-> "none", sres |-> "none",
   cres |-> "none", ores |-> "none", ack |-> 0, conc |-> {},
   posts |-> {}]

Init ==
  /\ variant \in {"index", "alt"}
  /\ credentials \in {"valid", "absent", "malformed"}
  /\ eventMappings = [d \in DocIds |-> NoId]
  /\ remoteEvents = {}
  /\ nextId = 1
  /\ lateInserts = {}
  /\ reqs = [r \in Reqs |-> NoReq]
  /\ silent = {}
  /\ payloadIn = NoPayload
  /\ calendarEvent = NoEvent

----------------------------------------------------------------------------
\* Pure helpers

\* JavaScript truthiness of a payload timestamp field.
Truthy(t) == t # "absent"

\* new Date(t).toISOString(): throws RangeError on an Invalid Date, which is
\* what new Date(undefined) and new Date("garbage") are.
toISOString(t) == IF t = "valid" THEN "ok" ELSE "RangeError"

\* Mutant of getGoogleCalendarAuth: the missing-credentials check is gone.
getGoogleCalendarAuthUnchecked == "client"

\* null when the credentials are missing or JSON.parse throws.
getGoogleCalendarAuth ==
  IF credentials = "valid" THEN "client" ELSE "null"

getGoogleCalendarAuthAlt ==
  IF credentials = "valid" THEN "client" ELSE "null"

\* What the delivery log keeps of the schedule timestamps of a payload.
TimesOf(e) ==
  IF ~e.hasPayload \/ e.type \notin UpsertTypes
  THEN "none"
  ELSE IF e.starts = "absent" \/ e.ends = "absent" THEN "missing"
  ELSE IF e.starts = "valid" /\ e.ends = "valid" THEN "valid"
  ELSE "invalid"

Live(id) == \E e \in remoteEvents : e.id = id

\* The deliveries that are being processed (arrived, reconcile not finished).
InFlight == {q \in Reqs : reqs[q].pc \notin {"idle", "done"}}

----------------------------------------------------------------------------
\* src/index.js: the synchronous part of the handlers.  Each returns what the
\* handler does before it gives control back to the dispatcher:
\*   "throw"   a TypeError / RangeError leaves the handler,
\*   "call"    the calendar function of the handler was called,
\*   "return"  the handler returned without calling it.

\* handleEstimateCreated / Updated / Deleted: read payload.estimate_no for
\* the log line (TypeError when payload is undefined); the SMS is a stub.
handleEstimate(e) == IF ~e.hasPayload THEN "throw" ELSE "return"

\* The HTTP requests the estimate handlers send out: they log, and call
\* sendSMS, which only logs (the Twilio code is commented out). No request
\* to a spreadsheet endpoint is made anywhere in the file.
handleEstimatePosts(e) == {}

handleScheduleCreated(e) ==
  IF ~e.hasPayload THEN "throw"
  ELSE IF Truthy(e.starts) /\ Truthy(e.ends)
       THEN IF toISOString(e.starts) = "ok" /\ toISOString(e.ends) = "ok"
            THEN "call" ELSE "throw"
       ELSE "return"

handleScheduleUpdated(e) ==
  IF ~e.hasPayload THEN "throw"
  ELSE IF Truthy(e.starts) /\ Truthy(e.ends)
       THEN IF toISOString(e.starts) = "ok" /\ toISOString(e.ends) = "ok"
            THEN "call" ELSE "throw"
       ELSE "return"

handleScheduleDeleted(e) == IF ~e.hasPayload THEN "throw" ELSE "call"

\* The switch of the dispatcher.
Route(e) ==
  CASE e.type \in EstimateTypes -> handleEstimate(e)
    [] e.type = "schedule.created" -> handleScheduleCreated(e)
    [] e.type = "schedule.updated" -> handleScheduleUpdated(e)
    [] e.type = "schedule.deleted" -> handleScheduleDeleted(e)
    [] OTHER -> "return"

\* The status the dispatcher answers with.  The handlers are not awaited, so
\* only a synchronous throw reaches the catch; building the 200 body reads
\* payload.doc_id, which throws when payload is undefined.
AckStatus(e) ==
  IF Route(e) = "throw" THEN 500
  ELSE IF ~e.hasPayload THEN 500
  ELSE 200

\* The reconcile operation a schedule event starts.
OpOf(type) ==
  CASE type = "schedule.created" -> "create"
    [] type = "schedule.updated" -> "update"
    [] type = "schedule.deleted" -> "delete"
    [] OTHER -> "none"

Arrives(r) ==
  /\ reqs[r].pc = "idle"
  /\ IF r = 1 THEN TRUE ELSE reqs[r - 1].pc # "idle"

Set(r, rec) == reqs' = [reqs EXCEPT ![r] = rec]

\* app.post('/webhook/quoteiq') of index.js: the whole handler runs in one
\* synchronous segment and answers before any calendar call is made; the
\* calendar function it called is left suspended at its first await.
Webhook(r) ==
  /\ variant = "index"
  /\ Arrives(r)
  /\ \E e \in Envelopes :
       LET called == Route(e) = "call" IN
       Set(r, [NoReq EXCEPT
                 !.type = e.type,
                 !.hasPayload = e.hasPayload,
                 !.times = TimesOf(e),
                 !.doc = IF called THEN e.doc ELSE "none",
                 !.op = IF called THEN OpOf(e.type) ELSE "none",
                 !.pc = IF called THEN "auth" ELSE "done",
                 !.cres = IF called /\ OpOf(e.type) = "create"
                          THEN "pending" ELSE "none",
                 !.ores = IF called THEN "pending" ELSE "none",
                 !.ack = AckStatus(e),
                 !.conc = InFlight,
                 !.posts = IF e.type \in EstimateTypes
                           THEN handleEstimatePosts(e) ELSE {}])
  /\ UNCHANGED <<silent, payloadIn, calendarEvent, variant, credentials, eventMappings, remoteEvents, nextId,
                 lateInserts>>

\* createGoogleCalendarEvent of index.js after `await getGoogleCalendarAuth()`:
\* returns when there is no client, else calls calendar.events.insert.
createGoogleCalendarEvent_insert(r) ==
  /\ variant = "index"
  /\ \/ reqs[r].pc = "auth" /\ reqs[r].op = "create"
     \/ reqs[r].pc = "c_auth"
  /\ IF getGoogleCalendarAuth = "null"
     THEN Set(r, [reqs[r] EXCEPT !.pc = "done", !.cres = "skipped",
                                 !.ores = "returned"])
     ELSE Set(r, [reqs[r] EXCEPT !.pc = "w_insert", !.nIns = @ + 1])
  /\ UNCHANGED <<silent, payloadIn, calendarEvent, variant, credentials, eventMappings, remoteEvents, nextId,
                 lateInserts>>

\* What the race between the insert and the 10 s timer can settle with.
InsertOutcomes == {"ok", "err", "notfound", "timeout"}

\* Mutant of MappingAfterInsert: the id is not stored.
MappingAfterInsertLost(d, id) == eventMappings

\* eventMappings.set(quoteiqDocId, response.data.id)
MappingAfterInsert(d, id) == [eventMappings EXCEPT ![d] = id]

\* Promise.race([insertPromise, timeoutPromise]): when the service never
\* answers, the timer rejects after 10 s.
RaceOutcomes(r) == IF r \in silent THEN {"timeout"} ELSE InsertOutcomes

\* createGoogleCalendarEvent of index.js when Promise.race settles: on
\* success the mapping is stored; every failure is logged and swallowed
\* (the catch block does not rethrow).  An insert that lost the race is
\* still on its way to the service.
createGoogleCalendarEvent_settle(r) ==
  /\ variant = "index"
  /\ reqs[r].pc = "w_insert"
  /\ \E out \in RaceOutcomes(r) :
       IF out = "ok"
       THEN /\ remoteEvents' = remoteEvents \cup {[id |-> nextId, doc |-> reqs[r].doc]}
            /\ nextId' = nextId + 1
            /\ eventMappings' = MappingAfterInsert(reqs[r].doc, nextId)
            /\ Set(r, [reqs[r] EXCEPT !.pc = "done", !.cres = "ok",
                                      !.newId = nextId, !.ores = "returned"])
            /\ UNCHANGED lateInserts
       ELSE /\ Set(r, [reqs[r] EXCEPT !.pc = "done", !.cres = "swallowed",
                                      !.ores = "returned"])
            /\ lateInserts' = IF out = "timeout"
                              THEN lateInserts \cup {r} ELSE lateInserts
            /\ UNCHANGED <<eventMappings, remoteEvents, nextId>>
  /\ silent' = silent \ {r}
  /\ UNCHANGED <<payloadIn, calendarEvent, variant, credentials>>

\* Mutant of LateInsertCompletes: the late answer stores its id.
LateInsertCompletesStores(r) ==
  /\ r \in lateInserts
  /\ lateInserts' = lateInserts \ {r}
  /\ remoteEvents' = remoteEvents \cup {[id |-> nextId, doc |-> reqs[r].doc]}
  /\ nextId' = nextId + 1
  /\ eventMappings' = [eventMappings EXCEPT ![reqs[r].doc] = nextId]
  /\ UNCHANGED <<silent, payloadIn, calendarEvent, variant, credentials, reqs>>

\* An insert that timed out on the client completes on the service: the
\* event exists, and nobody stores its id.
LateInsertCompletes(r) ==
  /\ r \in lateInserts
  /\ lateInserts' = lateInserts \ {r}
  /\ remoteEvents' = remoteEvents \cup {[id |-> nextId, doc |-> reqs[r].doc]}
  /\ nextId' = nextId + 1
  /\ UNCHANGED <<silent, payloadIn, calendarEvent, variant, credentials, eventMappings, reqs>>

\* What calendar.events.update answers for event id: not-found (code 404)
\* when the event no longer exists, otherwise success; any call can fail
\* with another error.
UpdateOutcomes(id) == IF Live(id) THEN {"ok", "err"} ELSE {"notfound", "err"}

\* What calendar.events.delete answers.
DeleteOutcomes(id) == IF Live(id) THEN {"ok", "err"} ELSE {"err"}

\* Mutant of MappingGet: the lookup misses (wrong key).
MappingGetMiss(d) == NoId

\* eventMappings.get(quoteiqDocId)
MappingGet(d) == eventMappings[d]

\* Mutant of OnNotFound: the 404 is swallowed like any other error.
OnNotFoundSwallow(rec) ==
  [rec EXCEPT !.pc = "done", !.ures = "notfound", !.ores = "returned"]

\* The 404 branch of the catch block of updateGoogleCalendarEvent: the
\* function goes on in createGoogleCalendarEvent.
OnNotFound(rec) ==
  [rec EXCEPT !.pc = "c_auth", !.ures = "notfound", !.cfrom = "catch",
              !.cres = "pending"]

\* Mutant of MappingAfterDelete: the catch block keeps the entry.
MappingAfterDeleteKeep(d, out) ==
  IF out = "ok" THEN [eventMappings EXCEPT ![d] = NoId] ELSE eventMappings

\* eventMappings.delete(quoteiqDocId), after the delete call and in the
\* catch block.
MappingAfterDelete(d, out) == [eventMappings EXCEPT ![d] = NoId]

\* updateGoogleCalendarEvent of index.js after `await getGoogleCalendarAuth()`:
\* no client: return; no mapping: createGoogleCalendarEvent (which suspends
\* at its own await); else calendar.events.update on the mapped id.
updateGoogleCalendarEvent_lookup(r) ==
  /\ variant = "index"
  /\ reqs[r].pc = "auth" /\ reqs[r].op = "update"
  /\ IF getGoogleCalendarAuth = "null"
     THEN Set(r, [reqs[r] EXCEPT !.pc = "done", !.ores = "returned"])
     ELSE IF MappingGet(reqs[r].doc) = NoId
     THEN Set(r, [reqs[r] EXCEPT !.pc = "c_auth", !.cfrom = "try",
                                 !.cres = "pending"])
     ELSE Set(r, [reqs[r] EXCEPT !.pc = "w_update", !.nUpd = @ + 1,
                                 !.tgt = MappingGet(reqs[r].doc)])
  /\ UNCHANGED <<silent, payloadIn, calendarEvent, variant, credentials, eventMappings, remoteEvents, nextId,
                 lateInserts>>

\* updateGoogleCalendarEvent of index.js when the update call settles: on
\* 404 the mapping is deleted and createGoogleCalendarEvent is called; any
\* other error is logged and swallowed.
updateGoogleCalendarEvent_settle(r) ==
  /\ variant = "index"
  /\ reqs[r].pc = "w_update"
  /\ r \notin silent
  /\ \E out \in UpdateOutcomes(reqs[r].tgt) :
       CASE out = "ok" ->
              /\ Set(r, [reqs[r] EXCEPT !.pc = "done", !.ures = "ok",
                                        !.ores = "returned"])
              /\ UNCHANGED eventMappings
         [] out = "notfound" ->
              /\ eventMappings' = [eventMappings EXCEPT ![reqs[r].doc] = NoId]
              /\ Set(r, OnNotFound(reqs[r]))
         [] OTHER ->
              /\ Set(r, [reqs[r] EXCEPT !.pc = "done", !.ures = "err",
                                        !.ores = "returned"])
              /\ UNCHANGED eventMappings
  /\ UNCHANGED <<silent, payloadIn, calendarEvent, variant, credentials, remoteEvents, nextId, lateInserts>>

\* deleteGoogleCalendarEvent of index.js after `await getGoogleCalendarAuth()`:
\* no client or no mapping: return; else calendar.events.delete.
deleteGoogleCalendarEvent_lookup(r) ==
  /\ variant = "index"
  /\ reqs[r].pc = "auth" /\ reqs[r].op = "delete"
  /\ IF getGoogleCalendarAuth = "null" \/ MappingGet(reqs[r].doc) = NoId
     THEN Set(r, [reqs[r] EXCEPT !.pc = "done", !.ores = "returned"])
     ELSE Set(r, [reqs[r] EXCEPT !.pc = "w_delete", !.nDel = @ + 1,
                                 !.tgt = MappingGet(reqs[r].doc)])
  /\ UNCHANGED <<silent, payloadIn, calendarEvent, variant, credentials, eventMappings, remoteEvents, nextId,
                 lateInserts>>

\* deleteGoogleCalendarEvent of index.js when the delete call settles: the
\* mapping is deleted after the call and in the catch block alike.
deleteGoogleCalendarEvent_settle(r) ==
  /\ variant = "index"
  /\ reqs[r].pc = "w_delete"
  /\ r \notin silent
  /\ \E out \in DeleteOutcomes(reqs[r].tgt) :
       /\ remoteEvents' = IF out = "ok"
                          THEN {e \in remoteEvents : e.id # reqs[r].tgt}
                          ELSE remoteEvents
       /\ eventMappings' = MappingAfterDelete(reqs[r].doc, out)
       /\ Set(r, [reqs[r] EXCEPT !.pc = "done", !.dres = out,
                                 !.ores = "returned"])
  /\ UNCHANGED <<silent, payloadIn, calendarEvent, variant, credentials, nextId, lateInserts>>

\* The calendar's owner (or anyone else with access) removes an event on
\* the service: the case the 404 branch of the update exists for.
UpstreamRemove ==
  /\ \E e \in remoteEvents : remoteEvents' = remoteEvents \ {e}
  /\ UNCHANGED <<silent, payloadIn, calendarEvent, variant, credentials, eventMappings, nextId, lateInserts, reqs>>

----------------------------------------------------------------------------
\* src/unnamed/part_000: the handlers are async and awaited by the
\* dispatcher, so whatever leaves a handler reaches the dispatcher's catch.

handleEstimateAlt(e) == IF ~e.hasPayload THEN "throw" ELSE "return"

\* The HTTP requests the estimate handlers of part_000 send out: they only
\* log.
handleEstimatePostsAlt(e) == {}

\* No guard on the timestamps: the calendar event is always built.
handleScheduleCreatedAlt(e) ==
  IF ~e.hasPayload THEN "throw"
  ELSE IF toISOString(e.starts) = "ok" /\ toISOString(e.ends) = "ok"
       THEN "call" ELSE "throw"

handleScheduleUpdatedAlt(e) ==
  IF ~e.hasPayload THEN "throw"
  ELSE IF toISOString(e.starts) = "ok" /\ toISOString(e.ends) = "ok"
       THEN "call" ELSE "throw"

handleScheduleDeletedAlt(e) == IF ~e.hasPayload THEN "throw" ELSE "call"

RouteAlt(e) ==
  CASE e.type \in EstimateTypes -> handleEstimateAlt(e)
    [] e.type = "schedule.created" -> handleScheduleCreatedAlt(e)
    [] e.type = "schedule.updated" -> handleScheduleUpdatedAlt(e)
    [] e.type = "schedule.deleted" -> handleScheduleDeletedAlt(e)
    [] OTHER -> "return"

\* The status the dispatcher of part_000 answers with once the awaited
\* handler has settled: 500 when it threw.
AckStatusAlt(thrown) == IF thrown THEN 500 ELSE 200

\* The awaited reconcile operation settles and the dispatcher answers.
Finish(rec, thrown) ==
  [rec EXCEPT !.pc = "done",
              !.ores = IF thrown THEN "thrown" ELSE "returned",
              !.ack = AckStatusAlt(thrown)]

\* app.post('/webhook/quoteiq') of part_000 up to the first await that
\* waits for something: a handler without a calendar call settles at once.
WebhookAlt(r) ==
  /\ variant = "alt"
  /\ Arrives(r)
  /\ \E e \in Envelopes :
       LET called == RouteAlt(e) = "call" IN
       Set(r, [NoReq EXCEPT
                 !.type = e.type,
                 !.hasPayload = e.hasPayload,
                 !.times = TimesOf(e),
                 !.doc = IF called THEN e.doc ELSE "none",
                 !.op = IF called THEN OpOf(e.type) ELSE "none",
                 !.pc = IF called THEN "auth" ELSE "done",
                 !.cres = IF called /\ OpOf(e.type) = "create"
                          THEN "pending" ELSE "none",
                 !.ores = IF called THEN "pending" ELSE "none",
                 !.ack = IF called THEN 0
                         ELSE AckStatusAlt(RouteAlt(e) = "throw"),
                 !.conc = InFlight,
                 !.posts = IF e.type \in EstimateTypes
                           THEN handleEstimatePostsAlt(e) ELSE {}])
  /\ UNCHANGED <<silent, payloadIn, calendarEvent, variant, credentials, eventMappings, remoteEvents, nextId,
                 lateInserts>>

createGoogleCalendarEventAlt_insert(r) ==
  /\ variant = "alt"
  /\ \/ reqs[r].pc = "auth" /\ reqs[r].op = "create"
     \/ reqs[r].pc = "c_auth"
  /\ IF getGoogleCalendarAuthAlt = "null"
     THEN Set(r, Finish([reqs[r] EXCEPT !.cres = "skipped"], FALSE))
     ELSE Set(r, [reqs[r] EXCEPT !.pc = "w_insert", !.nIns = @ + 1])
  /\ UNCHANGED <<silent, payloadIn, calendarEvent, variant, credentials, eventMappings, remoteEvents, nextId,
                 lateInserts>>

\* No timer in part_000: the insert succeeds or fails.
InsertOutcomesAlt == {"ok", "err", "notfound"}

\* createGoogleCalendarEvent of part_000 when the insert settles: no mapping
\* is stored; a failure is rethrown.  Thrown inside the try block of
\* updateGoogleCalendarEvent (cfrom = "try") it lands in that catch block,
\* which calls createGoogleCalendarEvent again when the code is 404.
createGoogleCalendarEventAlt_settle(r) ==
  /\ variant = "alt"
  /\ reqs[r].pc = "w_insert"
  /\ r \notin silent
  /\ \E out \in InsertOutcomesAlt :
       CASE out = "ok" ->
              /\ remoteEvents' =
                   remoteEvents \cup {[id |-> nextId, doc |-> reqs[r].doc]}
              /\ nextId' = nextId + 1
              /\ Set(r, Finish([reqs[r] EXCEPT !.cres = "ok", !.newId = nextId],
                               FALSE))
         [] out = "notfound" /\ reqs[r].cfrom = "try" ->
              /\ Set(r, [reqs[r] EXCEPT !.pc = "c_auth", !.cfrom = "catch",
                                        !.cres = "pending"])
              /\ UNCHANGED <<remoteEvents, nextId>>
         [] OTHER ->
              /\ Set(r, Finish([reqs[r] EXCEPT !.cres = "thrown"], TRUE))
              /\ UNCHANGED <<remoteEvents, nextId>>
  /\ UNCHANGED <<silent, payloadIn, calendarEvent, variant, credentials, eventMappings, lateInserts>>

\* What calendar.events.list answers.
SearchOutcomes == {"ok", "err", "notfound"}

\* searchResponse.data.items for q = doc_id.
Items(d) == {e \in remoteEvents : e.doc = d}

\* updateGoogleCalendarEvent of part_000 after the auth await: no client:
\* return; else search the calendar for the doc_id.
updateGoogleCalendarEventAlt_search(r) ==
  /\ variant = "alt"
  /\ reqs[r].pc = "auth" /\ reqs[r].op = "update"
  /\ IF getGoogleCalendarAuthAlt = "null"
     THEN Set(r, Finish(reqs[r], FALSE))
     ELSE Set(r, [reqs[r] EXCEPT !.pc = "w_search", !.nSrch = @ + 1])
  /\ UNCHANGED <<silent, payloadIn, calendarEvent, variant, credentials, eventMappings, remoteEvents, nextId,
                 lateInserts>>

\* ... when the search settles: update the first event found, create when
\* none is found or the search answered 404, rethrow any other error.
updateGoogleCalendarEventAlt_found(r) ==
  /\ variant = "alt"
  /\ reqs[r].pc = "w_search" /\ reqs[r].op = "update"
  /\ r \notin silent
  /\ \E out \in SearchOutcomes :
       CASE out = "ok" /\ Items(reqs[r].doc) # {} ->
              \E e \in Items(reqs[r].doc) :
                Set(r, [reqs[r] EXCEPT !.pc = "w_update", !.sres = "ok",
                                       !.nUpd = @ + 1, !.tgt = e.id])
         [] out = "ok" /\ Items(reqs[r].doc) = {} ->
              Set(r, [reqs[r] EXCEPT !.pc = "c_auth", !.sres = "ok",
                                     !.cfrom = "try", !.cres = "pending"])
         [] out = "notfound" ->
              Set(r, [reqs[r] EXCEPT !.pc = "c_auth", !.sres = "notfound",
                                     !.cfrom = "catch", !.cres = "pending"])
         [] OTHER ->
              Set(r, Finish([reqs[r] EXCEPT !.sres = "err"], TRUE))
  /\ UNCHANGED <<silent, payloadIn, calendarEvent, variant, credentials, eventMappings, remoteEvents, nextId,
                 lateInserts>>

\* ... when the update call settles: 404 falls back to create from the catch
\* block, any other error is rethrown.
updateGoogleCalendarEventAlt_settle(r) ==
  /\ variant = "alt"
  /\ reqs[r].pc = "w_update"
  /\ r \notin silent
  /\ \E out \in UpdateOutcomes(reqs[r].tgt) :
       CASE out = "ok" ->
              Set(r, Finish([reqs[r] EXCEPT !.ures = "ok"], FALSE))
         [] out = "notfound" ->
              Set(r, [reqs[r] EXCEPT !.pc = "c_auth", !.ures = "notfound",
                                     !.cfrom = "catch", !.cres = "pending"])
         [] OTHER ->
              Set(r, Finish([reqs[r] EXCEPT !.ures = "err"], TRUE))
  /\ UNCHANGED <<silent, payloadIn, calendarEvent, variant, credentials, eventMappings, remoteEvents, nextId,
                 lateInserts>>

\* deleteGoogleCalendarEvent of part_000 after the auth await.
deleteGoogleCalendarEventAlt_search(r) ==
  /\ variant = "alt"
  /\ reqs[r].pc = "auth" /\ reqs[r].op = "delete"
  /\ IF getGoogleCalendarAuthAlt = "null"
     THEN Set(r, Finish(reqs[r], FALSE))
     ELSE Set(r, [reqs[r] EXCEPT !.pc = "w_search", !.nSrch = @ + 1])
  /\ UNCHANGED <<silent, payloadIn, calendarEvent, variant, credentials, eventMappings, remoteEvents, nextId,
                 lateInserts>>

\* ... when the search settles: delete the first event found, return when
\* none is found, rethrow every error.
deleteGoogleCalendarEventAlt_found(r) ==
  /\ variant = "alt"
  /\ reqs[r].pc = "w_search" /\ reqs[r].op = "delete"
  /\ r \notin silent
  /\ \E out \in SearchOutcomes :
       CASE out = "ok" /\ Items(reqs[r].doc) # {} ->
              \E e \in Items(reqs[r].doc) :
                Set(r, [reqs[r] EXCEPT !.pc = "w_delete", !.sres = "ok",
                                       !.nDel = @ + 1, !.tgt = e.id])
         [] out = "ok" /\ Items(reqs[r].doc) = {} ->
              Set(r, Finish([reqs[r] EXCEPT !.sres = "ok"], FALSE))
         [] OTHER ->
              Set(r, Finish([reqs[r] EXCEPT !.sres = out], TRUE))
  /\ UNCHANGED <<silent, payloadIn, calendarEvent, variant, credentials, eventMappings, remoteEvents, nextId,
                 lateInserts>>

\* ... when the delete call settles.
deleteGoogleCalendarEventAlt_settle(r) ==
  /\ variant = "alt"
  /\ reqs[r].pc = "w_delete"
  /\ r \notin silent
  /\ \E out \in DeleteOutcomes(reqs[r].tgt) :
       /\ remoteEvents' = IF out = "ok"
                          THEN {e \in remoteEvents : e.id # reqs[r].tgt}
                          ELSE remoteEvents
       /\ Set(r, Finish([reqs[r] EXCEPT !.dres = out], out # "ok"))
  /\ UNCHANGED <<silent, payloadIn, calendarEvent, variant, credentials, eventMappings, nextId, lateInserts>>

----------------------------------------------------------------------------
Next ==
  \/ \E r \in Reqs : Webhook(r)
  \/ \E r \in Reqs : createGoogleCalendarEvent_insert(r)
  \/ \E r \in Reqs : createGoogleCalendarEvent_settle(r)
  \/ \E r \in Reqs : updateGoogleCalendarEvent_lookup(r)
  \/ \E r \in Reqs : updateGoogleCalendarEvent_settle(r)
  \/ \E r \in Reqs : deleteGoogleCalendarEvent_lookup(r)
  \/ \E r \in Reqs : deleteGoogleCalendarEvent_settle(r)
  \/ \E r \in Reqs : LateInsertCompletes(r)
  \/ \E r \in Reqs : WebhookAlt(r)
  \/ \E r \in Reqs : createGoogleCalendarEventAlt_insert(r)
  \/ \E r \in Reqs : createGoogleCalendarEventAlt_settle(r)
  \/ \E r \in Reqs : updateGoogleCalendarEventAlt_search(r)
  \/ \E r \in Reqs : updateGoogleCalendarEventAlt_found(r)
  \/ \E r \in Reqs : updateGoogleCalendarEventAlt_settle(r)
  \/ \E r \in Reqs : deleteGoogleCalendarEventAlt_search(r)
  \/ \E r \in Reqs : deleteGoogleCalendarEventAlt_found(r)
  \/ \E r \in Reqs : deleteGoogleCalendarEventAlt_settle(r)
  \/ UpstreamRemove

Spec == Init /\ [][Next]_vars

----------------------------------------------------------------------------
\* The calendar service that may never answer.

Waiting == {"w_insert", "w_update", "w_delete", "w_search"}

\* The service drops the outstanding call of delivery r: no answer will
\* ever arrive for it.
ServiceSilent(r) ==
  /\ reqs[r].pc \in Waiting
  /\ r \notin silent
  /\ silent' = silent \cup {r}
  /\ UNCHANGED <<payloadIn, calendarEvent, variant, credentials, eventMappings,
                 remoteEvents, nextId, lateInserts, reqs>>

NextHang ==
  \/ Next
  \/ \E r \in Reqs : ServiceSilent(r)

SpecHang == Init /\ [][NextHang]_vars

\* The steps that let delivery r go on after an external call.
Settles(r) ==
  \/ createGoogleCalendarEvent_settle(r)
  \/ updateGoogleCalendarEvent_settle(r)
  \/ deleteGoogleCalendarEvent_settle(r)
  \/ createGoogleCalendarEventAlt_settle(r)
  \/ updateGoogleCalendarEventAlt_found(r)
  \/ updateGoogleCalendarEventAlt_settle(r)
  \/ deleteGoogleCalendarEventAlt_found(r)
  \/ deleteGoogleCalendarEventAlt_settle(r)

----------------------------------------------------------------------------
\* The calendar resource of a schedule payload.
\*
\* A text field of a payload is missing, the empty string or a real text;
\* in JavaScript `x || d` and `x ? a : b` treat the first two alike.
Names == {"absent", "", "Alice"}
Emails == {"absent", "", "alice@example.com"}
Addresses == {"absent", "", "1 Main St"}

Payloads ==
  [doc_id : DocIds, customer_name : Names, customer_email : Emails,
   customer_address : Addresses,
   schedule_starts_at : TimeVals, schedule_ends_at : TimeVals]

\* x || d
Or(x, d) == IF x \in {"absent", ""} THEN d ELSE x

\* The object literal of handleScheduleCreated / handleScheduleUpdated of
\* index.js (the two literals are the same text). A template string is the
\* tuple of its parts; of the description the lines of the modelled fields
\* are kept.
Resource(p) ==
  [summary |-> <<"Appointment - ", Or(p.customer_name, "QuoteIQ Customer")>>,
   description |-> <<Or(p.customer_name, "N/A"), Or(p.customer_email, "N/A"),
                     Or(p.customer_address, "N/A"), p.doc_id>>,
   start |-> toISOString(p.schedule_starts_at),
   end |-> toISOString(p.schedule_ends_at),
   attendees |-> IF p.customer_email \in {"absent", ""}
                 THEN <<>> ELSE <<[email |-> p.customer_email]>>,
   location |-> Or(p.customer_address, "")]

\* The object literal of the two handlers of part_000: no attendees.
ResourceAlt(p) ==
  [summary |-> <<"Appointment - ", Or(p.customer_name, "QuoteIQ Customer")>>,
   description |-> <<Or(p.customer_name, "N/A"), Or(p.customer_email, "N/A"),
                     Or(p.customer_address, "N/A"), p.doc_id>>,
   start |-> toISOString(p.schedule_starts_at),
   end |-> toISOString(p.schedule_ends_at),
   location |-> Or(p.customer_address, "")]

\* What a schedule handler does with payload p on the given path: index.js
\* builds the resource only when both timestamps are truthy; toISOString
\* throws on a timestamp that is no date, before the resource exists.
Built(path, p) ==
  LET throws == \/ toISOString(p.schedule_starts_at) = "RangeError"
                \/ toISOString(p.schedule_ends_at) = "RangeError"
  IN IF variant = "index"
     THEN IF ~(Truthy(p.schedule_starts_at) /\ Truthy(p.schedule_ends_at))
          THEN [path |-> path, outcome |-> "skipped"]
          ELSE IF throws THEN [path |-> path, outcome |-> "thrown"]
          ELSE [path |-> path, outcome |-> "built", event |-> Resource(p)]
     ELSE IF throws THEN [path |-> path, outcome |-> "thrown"]
          ELSE [path |-> path, outcome |-> "built", event |-> ResourceAlt(p)]

InitResource ==
  /\ variant \in {"index", "alt"}
  /\ credentials = "valid"
  /\ eventMappings = [d \in DocIds |-> NoId]
  /\ remoteEvents = {}
  /\ nextId = 1
  /\ lateInserts = {}
  /\ reqs = [r \in Reqs |-> NoReq]
  /\ silent = {}
  /\ payloadIn \in Payloads
  /\ calendarEvent = NoEvent

\* handleScheduleCreated up to the call of createGoogleCalendarEvent.
BuildOnCreate ==
  /\ calendarEvent = NoEvent
  /\ calendarEvent' = Built("create", payloadIn)
  /\ UNCHANGED <<variant, credentials, eventMappings, remoteEvents, nextId,
                 lateInserts, reqs, silent, payloadIn>>

\* handleScheduleUpdated up to the call of updateGoogleCalendarEvent.
BuildOnUpdate ==
  /\ calendarEvent = NoEvent
  /\ calendarEvent' = Built("update", payloadIn)
  /\ UNCHANGED <<variant, credentials, eventMappings, remoteEvents, nextId,
                 lateInserts, reqs, silent, payloadIn>>

NextResource == BuildOnCreate \/ BuildOnUpdate

SpecResource == InitResource /\ [][NextResource]_vars

----------------------------------------------------------------------------
\* Vocabulary of the properties

\* The delivery made no call to the calendar service.
NoCalls(rec) ==
  rec.nIns = 0 /\ rec.nUpd = 0 /\ rec.nDel = 0 /\ rec.nSrch = 0

\* Deliveries a and b were in flight at the same time.
Overlapped(a, b) == a \in reqs[b].conc \/ b \in reqs[a].conc

\* A calendar call of the delivery failed.
CallFailed(rec) ==
  \/ rec.cres \in {"swallowed", "thrown"}
  \/ rec.ures = "err"
  \/ rec.dres = "err"
  \/ rec.sres = "err"

\* Delivery r takes a step.
Steps(r) == reqs'[r] # reqs[r]

----------------------------------------------------------------------------
\* C1: a schedule.created and a schedule.updated for the same doc_id that
\* are in flight together (no mapping beforehand, every calendar call
\* succeeds) never both create a calendar event: the create of the one and
\* the no-mapping fallback create of the other do not both succeed.
C1_NoDoubleCreate ==
  \A a \in Reqs : \A b \in Reqs :
    ~ /\ a # b
      /\ reqs[a].type = "schedule.created"
      /\ reqs[b].type = "schedule.updated"
      /\ reqs[a].doc = reqs[b].doc
      /\ Overlapped(a, b)
      /\ reqs[b].cfrom = "try"
      /\ ~CallFailed(reqs[a]) /\ ~CallFailed(reqs[b])
      /\ reqs[a].cres = "ok"
      /\ reqs[b].cres = "ok"

\* The lookup step of an update that finds a mapping: one update call on
\* the mapped id, which a successful create of another delivery returned.
C2_LookupStep ==
  \A r \in Reqs :
    (/\ Steps(r)
     /\ reqs[r].op = "update"
     /\ reqs[r].pc = "auth"
     /\ eventMappings[reqs[r].doc] # NoId)
    => /\ reqs'[r].pc = "w_update"
       /\ reqs'[r].nUpd = 1
       /\ reqs'[r].nIns = 0
       /\ reqs'[r].tgt = eventMappings[reqs[r].doc]
       /\ \E c \in Reqs : /\ c # r
                          /\ reqs[c].cres = "ok"
                          /\ reqs[c].doc = reqs[r].doc
                          /\ reqs[c].newId = reqs'[r].tgt

\* An update that was not answered not-found made one update call and no
\* insert call.
C2_OneUpdate ==
  \A r \in Reqs :
    (reqs[r].op = "update" /\ reqs[r].nUpd > 0 /\ reqs[r].ures # "notfound")
    => reqs[r].nUpd = 1 /\ reqs[r].nIns = 0

C3_State ==
  \A r \in Reqs :
    reqs[r].ures = "notfound"
    => /\ reqs[r].nIns <= 1
       /\ reqs[r].nUpd = 1
       /\ reqs[r].pc = "done"
          => /\ reqs[r].nIns = 1
             /\ reqs[r].cres \in {"ok", "swallowed", "thrown"}
             /\ reqs[r].ores = "thrown" => reqs[r].cres = "thrown"

\* The not-found answer removes the mapping; the successful fallback insert
\* stores the new id (index.js) and leaves a new event on the calendar.
C3_Step ==
  \A r \in Reqs :
    /\ (Steps(r) /\ reqs[r].pc = "w_update" /\ reqs'[r].ures = "notfound")
       => eventMappings'[reqs[r].doc] = NoId
    /\ (/\ Steps(r)
        /\ reqs[r].ures = "notfound"
        /\ reqs[r].pc = "w_insert"
        /\ reqs'[r].cres = "ok")
       => /\ variant = "index"
             => eventMappings'[reqs[r].doc] = reqs'[r].newId
          /\ [id |-> reqs'[r].newId, doc |-> reqs[r].doc] \in remoteEvents'
          /\ reqs'[r].newId # reqs[r].tgt

C4_AckDespiteFailure ==
  \A r \in Reqs :
    (/\ reqs[r].type \in ScheduleTypes
     /\ reqs[r].hasPayload
     /\ CallFailed(reqs[r])
     /\ reqs[r].pc = "done")
    => reqs[r].ack = 200

\* C5: an envelope of an unknown type without payload is ignored: no
\* calendar call, and the acknowledgment is 200.
C5_UnknownIgnored ==
  \A r \in Reqs :
    (/\ reqs[r].type = "unknown.event"
     /\ ~reqs[r].hasPayload
     /\ reqs[r].pc = "done")
    => /\ NoCalls(reqs[r])
       /\ reqs[r].op = "none"
       /\ reqs[r].ack = 200

\* The step a delete takes when the store has no entry for its doc_id.
C6_Step ==
  \A r \in Reqs :
    (/\ Steps(r)
     /\ reqs[r].op = "delete"
     /\ reqs[r].pc = "auth"
     /\ eventMappings[reqs[r].doc] = NoId)
    => /\ NoCalls(reqs'[r])
       /\ reqs'[r].pc = "done"
       /\ reqs'[r].ores = "returned"
       /\ reqs'[r].ack = 200
       /\ eventMappings' = eventMappings

\* C6: reconcileDelete for a doc_id without mapping makes no call to the
\* calendar service (no delete, no search), leaves the mapping store as it
\* is, throws nothing, and the envelope is acknowledged with 200.
C6_UnmappedDeleteIsNoop == [][C6_Step]_vars

\* The two steps of a delete that finds a mapping: the call, its answer.
C7_Step ==
  \A r \in Reqs :
    /\ (/\ Steps(r)
        /\ reqs[r].op = "delete"
        /\ reqs[r].pc = "auth"
        /\ eventMappings[reqs[r].doc] # NoId)
       => /\ reqs'[r].pc = "w_delete"
          /\ reqs'[r].nDel = 1
          /\ reqs'[r].tgt = eventMappings[reqs[r].doc]
    /\ (Steps(r) /\ reqs[r].pc = "w_delete")
       => /\ reqs'[r].pc = "done"
          /\ reqs'[r].nDel = 1
          /\ reqs'[r].dres \in {"ok", "err"}
          /\ eventMappings'[reqs[r].doc] = NoId

\* C7: reconcileDelete for a doc_id D with a mapping issues one delete call,
\* on the mapped id, and when it finishes the store has no entry for D,
\* whether the delete call succeeded or failed.
C7_MappedDeleteDropsEntry == [][C7_Step]_vars

C7_Witness ==
  \E r \in Reqs :
    /\ variant = "index"
    /\ reqs[r].op = "delete"
    /\ reqs[r].pc = "done"
    /\ reqs[r].dres = "err"
    /\ reqs[r].tgt # NoId
    /\ eventMappings[reqs[r].doc] = NoId

\* C8: a schedule.created or schedule.updated whose payload lacks
\* schedule_starts_at or schedule_ends_at is a no-op: no calendar call, no
\* reconcile operation, and processing does not fail.
C8_MissingTimesIsNoop ==
  \A r \in Reqs :
    (/\ reqs[r].type \in UpsertTypes
     /\ reqs[r].hasPayload
     /\ reqs[r].times = "missing"
     /\ reqs[r].pc = "done")
    => /\ NoCalls(reqs[r])
       /\ reqs[r].op = "none"
       /\ reqs[r].ack = 200

\* C9: without calendar credentials reconcileCreate, reconcileUpdate and
\* reconcileDelete make no calendar call, leave the mapping store as it is,
\* throw nothing, and the envelope is acknowledged with 200.
C9_NoCredentialsNoop ==
  credentials # "valid"
  => /\ eventMappings = [d \in DocIds |-> NoId]
     /\ remoteEvents = {}
     /\ \A r \in Reqs :
          /\ NoCalls(reqs[r])
          /\ reqs[r].ores # "thrown"
          /\ (reqs[r].op # "none" /\ reqs[r].pc = "done")
             => reqs[r].ores = "returned" /\ reqs[r].ack = 200
          /\ reqs[r].op # "none" => reqs[r].ack # 500

C9_Witness ==
  /\ credentials = "absent"
  /\ \E a \in Reqs : \E b \in Reqs :
       /\ reqs[a].op \in {"create", "update"}
       /\ reqs[b].op = "delete"
       /\ reqs[a].pc = "done" /\ reqs[b].pc = "done"
       /\ reqs[a].ack = 200 /\ reqs[b].ack = 200

\* C10: when the insert call of reconcileCreate fails, reconcileCreate
\* throws to its caller; and it is the only reconcile operation that
\* throws: nothing is thrown unless an insert failed.
C10_CreateFailurePropagates ==
  \A r \in Reqs :
    /\ reqs[r].cres # "swallowed"
    /\ reqs[r].ores = "thrown" => reqs[r].cres = "thrown"

\* C11: the event id mapped to a doc_id is immutable: an entry D -> id is
\* never replaced by another id; it can only be removed (by a not-found
\* answer or a delete) before a new id is stored.
C11_MappingImmutable ==
  [][\A d \in DocIds :
       eventMappings[d] # NoId
       => eventMappings'[d] \in {eventMappings[d], NoId}]_vars

\* An update past its lookup that was given no event id to update: the
\* store had no entry for its doc_id.
NoMappingSeen(r) ==
  /\ reqs[r].op = "update"
  /\ reqs[r].pc \notin {"idle", "auth"}
  /\ reqs[r].tgt = NoId

\* C12: for a doc_id without mapping reconcileUpdate behaves as
\* reconcileCreate does: no search and no update call, one insert call
\* (none without credentials), and the outcome of the create is the outcome
\* reported to the caller.
C12_FallbackEquivalence ==
  \A r \in Reqs :
    NoMappingSeen(r)
    => /\ reqs[r].nSrch = 0
       /\ reqs[r].nUpd = 0
       /\ reqs[r].nIns <= 1
       /\ reqs[r].pc = "done"
          => /\ reqs[r].nIns = (IF credentials = "valid" THEN 1 ELSE 0)
             /\ reqs[r].ores = "thrown" <=> reqs[r].cres = "thrown"
             /\ reqs[r].cres = "ok" => reqs[r].newId # NoId

\* C13: every external call is bounded: a delivery that waits for the
\* calendar service can always go on, also when the service never answers
\* (the call is then failed by a timer); no reconcile operation stays
\* pending forever.
C13_CallsBounded ==
  \A r \in Reqs : reqs[r].pc \in Waiting => ENABLED Settles(r)

\* C14: a body without a type field is acknowledged with 500, and nothing
\* else is: every envelope that carries a type is acknowledged with 200.
C14_OnlyMalformedFails ==
  \A r \in Reqs :
    reqs[r].pc = "done"
    => /\ reqs[r].type = "absent" => reqs[r].ack = 500
       /\ reqs[r].type # "absent" => reqs[r].ack = 200

\* A schedule.created delivery with payload, both timestamps and working
\* credentials, none of whose calendar calls failed.
CleanCreate(r) ==
  /\ reqs[r].type = "schedule.created"
  /\ reqs[r].hasPayload
  /\ reqs[r].times = "valid"
  /\ credentials = "valid"
  /\ ~CallFailed(reqs[r])

\* Such a delivery is never answered 500 and makes no call but one insert;
\* when it has finished, the insert was made and succeeded.
C15_State ==
  \A r \in Reqs :
    CleanCreate(r)
    => /\ reqs[r].op = "create"
       /\ reqs[r].ack # 500
       /\ reqs[r].nIns <= 1
       /\ reqs[r].nUpd = 0 /\ reqs[r].nDel = 0 /\ reqs[r].nSrch = 0
       /\ reqs[r].pc = "done"
          => /\ reqs[r].nIns = 1
             /\ reqs[r].cres = "ok"
             /\ reqs[r].newId # NoId
             /\ reqs[r].ack = 200

\* The step in which its insert succeeds stores doc_id -> returned id
\* (index.js) and leaves the event on the calendar.
C15_Step ==
  \A r \in Reqs :
    (/\ Steps(r)
     /\ CleanCreate(r)
     /\ reqs[r].pc = "w_insert"
     /\ reqs'[r].cres = "ok")
    => /\ variant = "index" => eventMappings'[reqs[r].doc] = reqs'[r].newId
       /\ [id |-> reqs'[r].newId, doc |-> reqs[r].doc] \in remoteEvents'
       /\ reqs'[r].pc = "done"

C16_EstimateForwardedOnce ==
  \A r \in Reqs :
    (/\ reqs[r].pc = "done"
     /\ reqs[r].type \in EstimateTypes
     /\ reqs[r].hasPayload)
    => /\ Cardinality(reqs[r].posts) = 1
       /\ \A p \in reqs[r].posts : p.type = reqs[r].type
       /\ reqs[r].ack = 200


\* Delivery r takes the step in which update/deleteGoogleCalendarEvent of
\* index.js reads eventMappings.get(doc_id).
ReadsMapping(r) ==
  /\ variant = "index"
  /\ Steps(r)
  /\ reqs[r].op \in {"update", "delete"}
  /\ reqs[r].pc = "auth"
  /\ credentials = "valid"

\* Delivery c has issued calendar.events.insert for document d and has not
\* yet stored the mapping.
InsertInFlight(c, d) ==
  /\ reqs[c].pc = "w_insert"
  /\ reqs[c].doc = d

\* C17: for a given doc_id no update or delete reads the mapping store
\* while a create for the same doc_id has issued its insert call and has
\* not yet stored the mapping.
C17_CreateAtomic ==
  [][\A r \in Reqs :
       ReadsMapping(r)
       => \A c \in Reqs \ {r} : ~InsertInFlight(c, reqs[r].doc)]_vars


\* In this step delivery r's insert for document d returns successfully
\* with the id the step stores.
InsertReturns(r, d) ==
  /\ reqs[r].pc = "w_insert"
  /\ reqs[r].doc = d
  /\ reqs'[r].cres = "ok"
  /\ reqs'[r].newId = eventMappings'[d]
  /\ [id |-> reqs'[r].newId, doc |-> d] \in remoteEvents'

\* An entry is written only by a step in which an insert for that document
\* returns, with the returned id.
C18_WriteNeedsInsert ==
  \A d \in DocIds :
    (eventMappings'[d] # eventMappings[d] /\ eventMappings'[d] # NoId)
    => \E r \in Reqs : InsertReturns(r, d)

\* A step that ends an insert without success (error, timeout), and a step
\* in which an abandoned insert completes on the service, leave the store
\* as it was.
C18_FailureKeepsStore ==
  /\ \A r \in Reqs :
       (Steps(r) /\ reqs[r].pc = "w_insert" /\ reqs'[r].cres # "ok")
       => eventMappings' = eventMappings
  /\ lateInserts' \subseteq lateInserts /\ lateInserts' # lateInserts
     => eventMappings' = eventMappings

\* C18: a mapping entry for doc_id D is written only after an insert call
\* for D returned successfully, with the id that insert returned; when the
\* insert fails, times out or is aborted the store is unchanged, even if
\* the timed-out insert completes later.
C18_NoPartialMappingWrite ==
  [][C18_WriteNeedsInsert /\ C18_FailureKeepsStore]_vars

\* An insert that timed out has completed on the service: its event exists,
\* no delivery holds its id, and the document has no entry.
C18_Witness ==
  /\ variant = "index"
  /\ \E ev \in remoteEvents :
       /\ eventMappings[ev.doc] = NoId
       /\ \A r \in Reqs : reqs[r].newId # ev.id
       /\ \E r \in Reqs :
            /\ reqs[r].cres = "swallowed"
            /\ reqs[r].doc = ev.doc
            /\ r \notin lateInserts


\* Once the update call has failed with another error, the delivery raised
\* nothing, was not answered 500 and made no insert call.
C19_State ==
  \A r \in Reqs :
    reqs[r].ures = "err"
    => /\ reqs[r].ores # "thrown"
       /\ reqs[r].ack # 500
       /\ reqs[r].nIns = 0

\* The step in which the update call fails leaves the store as it was.
C19_Step ==
  \A r \in Reqs :
    (Steps(r) /\ reqs[r].pc = "w_update" /\ reqs'[r].ures = "err")
    => eventMappings' = eventMappings

\* C19: when the update call of the update reconciliation fails with a
\* failure other than not-found, the failure is swallowed: nothing is
\* raised to the caller, no insert call is made and the mapping for that
\* doc_id is left unchanged.
C19_UpdateErrorSwallowed == []C19_State /\ [][C19_Step]_vars

\* C20: the calendar resource is a deterministic function of the payload,
\* the same on the create and update paths: summary is "Appointment - "
\* followed by customer_name, or "QuoteIQ Customer" when absent; location
\* is customer_address or the empty string; attendees holds the customer
\* email exactly when customer_email is present, and is the empty list
\* otherwise. (An empty text counts as absent.)
C20_ResourceOfPayload ==
  /\ \A p \in Payloads : Built("create", p).outcome = Built("update", p).outcome
  /\ \A p \in Payloads :
       Built("create", p).outcome = "built"
       => Built("create", p).event = Built("update", p).event
  /\ (calendarEvent.path \in {"create", "update"}
      /\ calendarEvent.outcome = "built")
     => LET ev == calendarEvent.event
            p == payloadIn
        IN /\ ev.summary = <<"Appointment - ",
                             IF p.customer_name \in {"absent", ""}
                             THEN "QuoteIQ Customer" ELSE p.customer_name>>
           /\ ev.location = IF p.customer_address \in {"absent", ""}
                            THEN "" ELSE p.customer_address
           /\ "attendees" \in DOMAIN ev
           /\ ev.attendees = IF p.customer_email \in {"absent", ""}
                             THEN <<>> ELSE <<[email |-> p.customer_email]>>


\* Every delivery so far arrived when no other was being processed.
Sequential == \A r \in Reqs : reqs[r].conc = {}

\* The live calendar events the engine created for document d.
LiveFor(d) == {e \in remoteEvents : e.doc = d}

\* C21: when the events are processed strictly one after the other, with
\* any calendar call allowed to fail, at most one live calendar event
\* created by the engine exists for a doc_id in every reachable state.
C21_OneLiveResource ==
  Sequential => \A d \in DocIds : Cardinality(LiveFor(d)) <= 1

====
